---- MODULE Spec2Model ----
(***************************************************************************)
(* Model of lm_eval.evaluator.evaluate: request construction, batched      *)
(* (possibly data-parallel) execution, response reconciliation, scoring    *)
(* and aggregation.                                                        *)
(***************************************************************************)
EXTENDS Integers, Sequences, FiniteSets, TLC

\* ------------------------------------------------------------------ bounds
MaxDocs == 2
MaxReqsPerType == 3
MaxBatch == 2
MaxProcs == 2
MaxFault == 2
MaxConstructed == 5

\* ------------------------------------------------------- program constants
None == -1
NumStreams == 2
DefaultBootstrapIters == 100000
BootstrapCap == 1000

TaskKeys == <<"k1", "k2">>
ReqTypes == {"loglikelihood", "greedy_until"}

VARIABLES
    pc,                     \* position in evaluate()
    batch_size,             \* evaluate(batch_size=...)
    num_processes,          \* accelerator.num_processes (0 before Accelerator())
    taskPos,                \* index in `tasks` of the task being examined
    task_dict,              \* keys of task_dict, in insertion order
    ignored,                \* history: tasks logged as "Ignoring Task"
    taskIdx,                \* index in task_dict of the task being built
    task_docs,              \* evaluation docs of that task, after map/filter/shuffle/islice
    enumerated,             \* task_docs has been computed for the current task
    docPos,                 \* enumerate() counter of the construction loop
    docs,                   \* docs[(task_template_key, doc_id)]
    requests,               \* requests[request_type]
    requests_origin,        \* requests_origin[request_type]
    typeOrder,              \* insertion order of the keys of `requests`
    versions,               \* versions[task_template_key]
    typeIdx,                \* index in typeOrder of the type being executed
    step,                   \* enumerate() counter of the batch loop
    samples_seen,
    process_response_queue, \* process_response_queue[(task_template_key, doc_id)]
    queueOrder,             \* insertion order of the keys of process_response_queue
    batchLog,               \* history: what each batch step gathered and routed
    raised,                 \* the exception that left evaluate(), if any
    bucketIdx,              \* index in queueOrder of the bucket being scored
    bundles,                \* history: per_doc_results passed to process_results
    vals,                   \* vals[(task_template_key, metric)]
    valsOrder,              \* insertion order of the keys of vals
    bootstrap_iters,        \* evaluate(bootstrap_iters=...), 0 until aggregation reads it
    results,                \* results[task_template_key][metric]
    metric_results          \* the list returned under "results"

vars == <<pc, batch_size, num_processes, taskPos, task_dict, ignored, taskIdx, task_docs, enumerated,
          docPos, docs, requests, requests_origin, typeOrder, versions, typeIdx,
          step, samples_seen, process_response_queue, queueOrder, batchLog,
          raised, bucketIdx, bundles, vals, valsOrder, bootstrap_iters, results,
          metric_results>>

\* ----------------------------------------------------------------- helpers
Min(a, b) == IF a < b THEN a ELSE b
Max(a, b) == IF a > b THEN a ELSE b
Range(s) == {s[k] : k \in DOMAIN s}
Injective(s) == \A a, b \in DOMAIN s : s[a] = s[b] => a = b
CeilDiv(a, b) == (a + b - 1) \div b

EmptyFn == [x \in {} |-> None]
Put(f, k, v) == [x \in (DOMAIN f) \cup {k} |-> IF x = k THEN v ELSE f[x]]

\* ------------------------------------------------------ Document Enumerator
\* task_docs.map(lambda ex, idx: {**ex, "doc_id": idx}, with_indices=True)
MapDocIds(key, n) == [k \in 1..n |-> [task |-> key, doc_id |-> k - 1]]

\* task_docs.filter(lambda d: not task.invalid_doc_for_prompt(d))
FilterDocs(ds, invalid) == SelectSeq(ds, LAMBDA d : d.doc_id \notin invalid)

\* task_docs.shuffle(generator=rng): the orders a permutation can give
Shuffles(ds) == {t \in [1..Len(ds) -> Range(ds)] : Injective(t)}

\* itertools.islice(task_docs, 0, limit)
ISlice(ds, limit) == IF limit = None THEN ds ELSE SubSeq(ds, 1, Min(limit, Len(ds)))

\* ---------------------------------------------------------- Request Builder
\* task.construct_requests(doc, ctx, args): the request lists a task can return,
\* each request given by its request_type and its return index (Request.index)
Req(t, ix) == [request_type |-> t, index |-> ix]
RequestPlans ==
    { <<>>,
      <<Req("loglikelihood", 0)>>,
      <<Req("loglikelihood", 0), Req("loglikelihood", 1)>>,
      <<Req("greedy_until", None), Req("loglikelihood", 0)>> }

\* fewshotex_logging_info, with fewshotex_logging_info["doc_id"] = doc["doc_id"]
\* (task_info: what example.update(task.get_logging_info()) has added to it)
LoggingInfo(doc) == [task |-> doc.task, doc_id |-> doc.doc_id, task_info |-> <<>>]

\* req.unique_request_id = len(requests_origin[req.request_type])
NextUniqueRequestIdAnyType(origin, t) ==
    Len(origin["loglikelihood"]) + Len(origin["greedy_until"])
NextUniqueRequestId(origin, t) == Len(origin[t])

\* for i, req in enumerate(reqs): ... (the body of the inner construction loop)
AppendRequestsRecordsDocument(st, reqs, i, key, doc, doc_id) ==
    [st EXCEPT !.origin["loglikelihood"] =
        Append(@, [i |-> 0, task_template_key |-> key, doc |-> doc, doc_id |-> doc_id,
                   info |-> LoggingInfo(doc), return_index |-> None])]
RECURSIVE AppendRequests(_, _, _, _, _, _)
AppendRequests(st, reqs, i, key, doc, doc_id) ==
    IF i >= Len(reqs) THEN st
    ELSE LET req == reqs[i + 1]
             t == req.request_type
             unique_request_id == NextUniqueRequestId(st.origin, t)
             full == [request_type |-> t, index |-> req.index, doc_id |-> doc_id,
                      unique_request_id |-> unique_request_id]
             rec == [i |-> i, task_template_key |-> key, doc |-> doc, doc_id |-> doc_id,
                     info |-> LoggingInfo(doc), return_index |-> req.index]
             st2 == [requests |-> [st.requests EXCEPT ![t] = Append(@, full)],
                     origin |-> [st.origin EXCEPT ![t] = Append(@, rec)],
                     order |-> IF t \in Range(st.order) THEN st.order
                               ELSE Append(st.order, t)]
         IN  AppendRequests(st2, reqs, i + 1, key, doc, doc_id)

PlanFits(reqs) ==
    \A t \in ReqTypes :
        Len(requests[t]) + Cardinality({k \in DOMAIN reqs : reqs[k].request_type = t})
            <= MaxReqsPerType

\* an exception propagating out of evaluate(): its kind, the request type and
\* batch step being executed, and the position in the batch of the triple
\* being routed (0 when it was not raised by the routing loop)
Exception(kind, t, s, at) == [kind |-> kind, request_type |-> t, step |-> s, at |-> at]
NoException == Exception("none", "", 0, 0)

\* -------------------------------------------------------------------- Init
Init ==
    /\ pc = "tasks"
    /\ batch_size \in 1..MaxBatch
    /\ num_processes = 0
    /\ taskPos = 1
    /\ task_dict = <<>>
    /\ ignored = <<>>
    /\ taskIdx = 1
    /\ task_docs = <<>>
    /\ enumerated = FALSE
    /\ docPos = 0
    /\ docs = EmptyFn
    /\ requests = [t \in ReqTypes |-> <<>>]
    /\ requests_origin = [t \in ReqTypes |-> <<>>]
    /\ typeOrder = <<>>
    /\ versions = EmptyFn
    /\ typeIdx = 1
    /\ step = 0
    /\ samples_seen = 0
    /\ process_response_queue = EmptyFn
    /\ queueOrder = <<>>
    /\ batchLog = <<>>
    /\ raised = NoException
    /\ bucketIdx = 1
    /\ bundles = EmptyFn
    /\ vals = EmptyFn
    /\ valsOrder = <<>>
    /\ bootstrap_iters = 0
    /\ results = EmptyFn
    /\ metric_results = <<>>

taskVars == <<taskPos, task_dict, ignored>>
execVars == <<typeIdx, step, samples_seen, process_response_queue, queueOrder, batchLog,
              raised>>
scoreVars == <<bucketIdx, bundles, vals, valsOrder, bootstrap_iters, results,
               metric_results>>
paramVars == <<batch_size, num_processes>>

\* ------------------------------------------------------- task_dict actions
\* what follows `for task in tasks`: the construction loop when task_dict has
\* a task, otherwise the data loaders
AfterTasks(dict) ==
    IF taskPos < Len(TaskKeys) THEN "tasks"
    ELSE IF Len(dict) = 0 THEN "prepare" ELSE "build"

\* a task with validation or test docs: task_dict[key] = task
KeepTask ==
    /\ pc = "tasks"
    /\ task_dict' = Append(task_dict, TaskKeys[taskPos])
    /\ taskPos' = taskPos + 1
    /\ pc' = AfterTasks(task_dict')
    /\ UNCHANGED <<ignored, taskIdx, task_docs, enumerated, docPos, docs, requests,
                   requests_origin, typeOrder, versions>>
    /\ UNCHANGED <<paramVars, execVars, scoreVars>>

\* a task with neither validation nor test docs: logged, then `continue`
SkipTaskRegistered ==
    /\ pc = "tasks"
    /\ ignored' = Append(ignored, TaskKeys[taskPos])
    /\ task_dict' = Append(task_dict, TaskKeys[taskPos])
    /\ taskPos' = taskPos + 1
    /\ pc' = AfterTasks(task_dict')
    /\ UNCHANGED <<taskIdx, task_docs, enumerated, docPos, docs, requests,
                   requests_origin, typeOrder, versions>>
    /\ UNCHANGED <<paramVars, execVars, scoreVars>>
SkipTask ==
    /\ pc = "tasks"
    /\ ignored' = Append(ignored, TaskKeys[taskPos])
    /\ taskPos' = taskPos + 1
    /\ pc' = AfterTasks(task_dict)
    /\ UNCHANGED <<task_dict, taskIdx, task_docs, enumerated, docPos, docs, requests,
                   requests_origin, typeOrder, versions>>
    /\ UNCHANGED <<paramVars, execVars, scoreVars>>

\* ----------------------------------------------------------- build actions
\* task.evaluation_docs() ... .map ... .filter ... .shuffle ... islice(.., limit)
\* (MaxDocs bounds the documents of all task datasets together)
EnumerateDocs ==
    /\ pc = "build"
    /\ taskIdx <= Len(task_dict)
    /\ ~enumerated
    /\ \E n \in 0..(MaxDocs - Cardinality(DOMAIN docs)), limit \in {None} \cup (1..MaxDocs) :
       \E invalid \in SUBSET (0..(n - 1)) :
       \E shuffled \in Shuffles(FilterDocs(MapDocIds(task_dict[taskIdx], n), invalid)) :
            /\ task_docs' = ISlice(shuffled, limit)
            /\ Cardinality(DOMAIN docs) + Len(task_docs') <= MaxDocs
    /\ enumerated' = TRUE
    /\ docPos' = 0
    /\ UNCHANGED <<pc, taskIdx, docs, requests, requests_origin, typeOrder, versions>>
    /\ UNCHANGED <<taskVars, paramVars, execVars, scoreVars>>

\* one iteration of `for doc_id, doc in enumerate(...)`
ConstructRequests ==
    /\ pc = "build"
    /\ enumerated
    /\ docPos < Len(task_docs)
    /\ LET key == task_dict[taskIdx]
           doc_id == docPos
           doc == task_docs[docPos + 1]
       IN  \E reqs \in RequestPlans :
            /\ PlanFits(reqs)
            /\ LET st == AppendRequests([requests |-> requests, origin |-> requests_origin,
                                         order |-> typeOrder], reqs, 0, key, doc, doc_id)
               IN  /\ requests' = st.requests
                   /\ requests_origin' = st.origin
                   /\ typeOrder' = st.order
            /\ docs' = Put(docs, <<key, doc_id>>, doc)
    /\ docPos' = docPos + 1
    /\ UNCHANGED <<pc, taskIdx, task_docs, enumerated, versions>>
    /\ UNCHANGED <<taskVars, paramVars, execVars, scoreVars>>

\* task.VERSION of the task registered under a key
Version(task_template_key) == [VERSION_of |-> task_template_key]

\* versions[task_template_key] = task.VERSION, then the next task
StoreVersion ==
    /\ pc = "build"
    /\ enumerated
    /\ docPos = Len(task_docs)
    /\ versions' = Put(versions, task_dict[taskIdx], Version(task_dict[taskIdx]))
    /\ taskIdx' = taskIdx + 1
    /\ enumerated' = FALSE
    /\ task_docs' = <<>>
    /\ docPos' = 0
    /\ pc' = IF taskIdx = Len(task_dict) THEN "prepare" ELSE "build"
    /\ UNCHANGED <<docs, requests, requests_origin, typeOrder>>
    /\ UNCHANGED <<taskVars, paramVars, execVars, scoreVars>>

\* the request datasets and data loaders, Accelerator(), prepare_data_loader
PrepareDataLoaders ==
    /\ pc = "prepare"
    /\ num_processes' \in 1..MaxProcs
    /\ pc' = "exec"
    /\ UNCHANGED <<taskVars, batch_size, taskIdx, task_docs, enumerated, docPos, docs, requests,
                   requests_origin, typeOrder, versions>>
    /\ UNCHANGED <<execVars, scoreVars>>

\* ----------------------------------------------------- prepared data loader
\* len(requests_data_loader): batches per process of the loader prepared for
\* batch size B on W processes
NumSteps(B, W, n) ==
    IF W = 1 THEN CeilDiv(n, B)
    ELSE CeilDiv(CeilDiv(n, B), W)

\* dataset index served at global position g of a type with n requests: the
\* prepared loader completes the last batches of the ranks by cycling back to
\* the start of the dataset
DatasetIndex(g, n) == IF g < n THEN g ELSE (g - n) % n

\* the dataset indices of the batch that rank p receives at step s
ShardIndicesShuffled(B, W, s, p, n) ==
    LET size == IF W = 1 THEN Min((s + 1) * B, n) - s * B ELSE B
    IN  [k \in 1..size |-> DatasetIndex((s * W + p) * B + (size - k), n)]
ShardIndices(B, W, s, p, n) ==
    IF W = 1
    THEN [k \in 1..(Min((s + 1) * B, n) - s * B) |-> s * B + (k - 1)]
    ELSE [k \in 1..B |-> DatasetIndex((s * W + p) * B + (k - 1), n)]

\* RequestDataset.__getitem__ / DataCollator: the id streams of a batch
UniqueRequestIds(t, idxs) == [k \in DOMAIN idxs |-> requests[t][idxs[k] + 1].unique_request_id]
DocIdsOfPosition(t, idxs) == [k \in DOMAIN idxs |-> idxs[k]]
DocIds(t, idxs) == [k \in DOMAIN idxs |-> requests[t][idxs[k] + 1].doc_id]

\* ------------------------------------------------------------ model backend
\* one output value of the backend: component c of the response computed for
\* request (t, id) at position pos of rank p in batch step s
Comp(t, id, c, s, p, pos) == [request_type |-> t, id |-> id, c |-> c, step |-> s,
                              rank |-> p, pos |-> pos]

\* getattr(model, request_type)(...): a tuple of NumStreams streams, one value
\* per request of the batch in each stream
BackendCall(t, idxs, s, p) ==
    [c \in 1..NumStreams |->
        [k \in DOMAIN idxs |->
            Comp(t, requests[t][idxs[k] + 1].unique_request_id, c - 1, s, p, k - 1)]]

\* accelerator.gather: concatenation of the per-rank streams in rank order
RECURSIVE Gather(_, _)
Gather(perRank, p) ==
    IF p > Len(perRank) THEN <<>> ELSE perRank[p] \o Gather(perRank, p + 1)

\* seq[:c] of Python
PySliceTo(seq, c) ==
    IF c >= 0 THEN SubSeq(seq, 1, Min(c, Len(seq)))
    ELSE SubSeq(seq, 1, Max(Len(seq) + c, 0))

\* if accelerator.use_distributed: ... if step == len(requests_data_loader) - 1:
\*     responses = responses[: len(requests_data_loader.dataset) - samples_seen]
TruncateEveryStep(gathered, distributed, last, n, seen) ==
    IF distributed THEN PySliceTo(gathered, IF last THEN n - seen ELSE seen)
    ELSE gathered
Truncate(gathered, distributed, last, n, seen) ==
    IF distributed /\ last THEN PySliceTo(gathered, n - seen) ELSE gathered

\* else: samples_seen += len(responses)
SamplesSeenAfter(gathered, distributed, last, seen) ==
    IF distributed /\ ~last THEN seen + Len(gathered) ELSE seen

MinLen(streams) ==
    IF Len(streams) = 0 THEN 0
    ELSE CHOOSE m \in {Len(streams[k]) : k \in DOMAIN streams} :
            \A k \in DOMAIN streams : m <= Len(streams[k])

\* list(zip(*responses))
ZipStreams(streams) ==
    [j \in 1..MinLen(streams) |->
        [kind |-> "tuple", v |-> [c \in DOMAIN streams |-> streams[c][j]]]]

\* the responses iterated by the routing loop
ResponseList(responses) ==
    IF Len(responses) > 1 THEN ZipStreams(responses)
    ELSE [k \in DOMAIN responses |-> [kind |-> "stream", v |-> responses[k]]]

\* zip(unique_request_ids, doc_ids, responses)
Triples(ids, dids, resps) ==
    [k \in 1..Min(Len(ids), Min(Len(dids), Len(resps))) |->
        [unique_request_id |-> ids[k], doc_id |-> dids[k], response |-> resps[k]]]

\* ----------------------------------------------------- Response Reconciler
\* response[request_return_index] if request_return_index is not None else response
Unwrap(response, request_return_index) ==
    IF request_return_index = None THEN response
    ELSE [kind |-> "scalar", v |-> <<response.v[request_return_index + 1]>>]

\* assert doc_id == origin_doc_id
DocIdUnchecked(doc_id, origin_doc_id) == TRUE
DocIdMatches(doc_id, origin_doc_id) == doc_id = origin_doc_id

\* process_response_queue[(task_template_key, int(doc_id))]
BucketKeyDocIdOnly(task_template_key, doc_id) == <<TaskKeys[1], doc_id>>
BucketKey(task_template_key, doc_id) == <<task_template_key, doc_id>>

\* the position (from 1) that list[ix] reads in a list of n elements: a
\* negative ix counts from the end; a position outside 1..n raises IndexError
ListIndex(ix, n) == IF ix >= 0 THEN ix + 1 ELSE n + ix + 1

\* the body of `for unique_request_id, doc_id, response in zip(...)`; the loop
\* stops at the first triple that raises, st.at being its position
RECURSIVE Route(_, _, _, _)
Route(st, t, triples, k) ==
    IF k > Len(triples) \/ ~st.ok THEN st
    ELSE LET tr == triples[k]
             at == ListIndex(tr.unique_request_id, Len(requests_origin[t]))
             found == at \in DOMAIN requests_origin[t]
             origin == requests_origin[t][at]
         IN  IF ~found THEN [st EXCEPT !.ok = FALSE, !.error = "IndexError", !.at = k]
             ELSE IF ~DocIdMatches(tr.doc_id, origin.doc_id)
                  THEN [st EXCEPT !.ok = FALSE, !.error = "AssertionError", !.at = k]
             ELSE IF origin.return_index # None
                     /\ origin.return_index >= Len(tr.response.v)
                  THEN [st EXCEPT !.ok = FALSE, !.error = "IndexError", !.at = k]
             ELSE LET bucket == BucketKey(origin.task_template_key, tr.doc_id)
                      entry == [i |-> origin.i,
                                response |-> Unwrap(tr.response, origin.return_index),
                                info |-> origin.info,
                                unique_request_id |-> tr.unique_request_id]
                      old == IF bucket \in DOMAIN st.queue THEN st.queue[bucket] ELSE <<>>
                  IN  Route([queue |-> Put(st.queue, bucket, Append(old, entry)),
                             order |-> IF bucket \in DOMAIN st.queue THEN st.order
                                       ELSE Append(st.order, bucket),
                             ok |-> TRUE, error |-> "", at |-> 0],
                            t, triples, k + 1)

\* ------------------------------------------------------------ exec actions
\* the nested loops `for request_type, requests_data_loader in ...items()` and
\* `for step, request_batch in enumerate(requests_data_loader)`: the position
\* after the batch at step s of the ti-th type
NextBatchLeavesType(ti, s, last) == [typeIdx |-> ti + 1, step |-> 0]
NextBatch(ti, s, last) ==
    IF last THEN [typeIdx |-> ti + 1, step |-> 0] ELSE [typeIdx |-> ti, step |-> s + 1]

\* the doc_ids a batch delivers to the routing loop: those of the requests of
\* the batch, or (fault > 0) a stream whose element at position `fault` does
\* not belong to the request named at that position (fault <= MaxFault)
DeliveredDocIds(doc_ids, fault) ==
    [k \in DOMAIN doc_ids |-> IF k = fault THEN doc_ids[k] + 1 ELSE doc_ids[k]]

\* an integer that is not the dispatch id of any of the n requests of a type
AbsentKinds == {"minus_one", "minus_n", "below", "above"}
AbsentId(kind, n) ==
    IF kind = "minus_one" THEN -1
    ELSE IF kind = "minus_n" THEN -n
    ELSE IF kind = "below" THEN -n - 1
    ELSE n
NoAbsentId == [at |-> 0, kind |-> "none"]

\* the unique_request_ids a batch delivers to the routing loop: those of the
\* requests of the batch, or (absent.at > 0) an absent id at position absent.at
DeliveredUniqueRequestIds(ids, absent, n) ==
    [k \in DOMAIN ids |-> IF k = absent.at THEN AbsentId(absent.kind, n) ELSE ids[k]]

\* one iteration of `for step, request_batch in enumerate(requests_data_loader)`;
\* each local of the iteration is bound once, as the element of a singleton
BatchStep(absent) ==
    /\ pc = "exec"
    /\ typeIdx <= Len(typeOrder)
    /\ LET t == typeOrder[typeIdx]
           n == Len(requests[t])
           steps == NumSteps(batch_size, num_processes, n)
           distributed == num_processes > 1
           last == step = steps - 1
       IN  /\ step < steps
           /\ \E shards \in {[p \in 1..num_processes |->
                                ShardIndices(batch_size, num_processes, step, p - 1, n)]} :
              \E unique_request_ids \in {DeliveredUniqueRequestIds(
                     Gather([p \in 1..num_processes |-> UniqueRequestIds(t, shards[p])], 1),
                     absent, n)} :
              \E perRank \in {[p \in 1..num_processes |->
                                 BackendCall(t, shards[p], step, p - 1)]} :
              \E gathered \in {[c \in 1..NumStreams |->
                                  Gather([p \in 1..num_processes |-> perRank[p][c]], 1)]} :
              \E responses \in {Truncate(gathered, distributed, last, n, samples_seen)} :
              \E resps \in {ResponseList(responses)} :
              /\ absent.at <= Min(Len(unique_request_ids), Len(resps))
              /\ \E fault \in 0..(IF absent.at > 0 THEN 0
                                   ELSE Min(MaxFault,
                                            Min(Len(unique_request_ids), Len(resps)))) :
                 \E doc_ids \in {DeliveredDocIds(
                        Gather([p \in 1..num_processes |-> DocIds(t, shards[p])], 1),
                        fault)} :
                 \E triples \in {Triples(unique_request_ids, doc_ids, resps)} :
                 \E routed \in {Route([queue |-> process_response_queue,
                                       order |-> queueOrder, ok |-> TRUE, error |-> "",
                                       at |-> 0], t, triples, 1)} :
                 LET entry == [request_type |-> t, step |-> step, last |-> last,
                               distributed |-> distributed, total |-> n,
                               seen_before |-> samples_seen,
                               indices |-> Gather(shards, 1),
                               fault |-> fault,
                               absent |-> absent.at,
                               produced |-> Triples(unique_request_ids, doc_ids,
                                                    ZipStreams(gathered)),
                               handed |-> triples]
                 IN  /\ batchLog' = Append(batchLog, entry)
                     /\ process_response_queue' = routed.queue
                     /\ queueOrder' = routed.order
                     /\ IF routed.ok
                        THEN /\ pc' = pc
                             /\ raised' = raised
                             /\ typeIdx' = NextBatch(typeIdx, step, last).typeIdx
                             /\ step' = NextBatch(typeIdx, step, last).step
                             /\ samples_seen' =
                                    IF last THEN 0
                                    ELSE SamplesSeenAfter(gathered, distributed, last,
                                                          samples_seen)
                        ELSE /\ pc' = "aborted"
                             /\ raised' = Exception(routed.error, t, step, routed.at)
                             /\ UNCHANGED <<typeIdx, step, samples_seen>>
    /\ UNCHANGED <<taskIdx, task_docs, enumerated, docPos, docs, requests,
                   requests_origin, typeOrder, versions>>
    /\ UNCHANGED <<taskVars, paramVars, scoreVars>>

\* a batch that delivers the dispatch ids of its requests
RunBatch == BatchStep(NoAbsentId)

\* a batch that delivers an absent dispatch id at one of its first positions
RunBatchAbsentId ==
    \E at \in 1..MaxFault, kind \in AbsentKinds :
        BatchStep([at |-> at, kind |-> kind])

\* getattr(model, request_type) on a model that lacks the attribute: the
\* AttributeError of the first batch of the type leaves evaluate()
UnregisteredRequestType ==
    /\ pc = "exec"
    /\ typeIdx <= Len(typeOrder)
    /\ step = 0
    /\ raised' = Exception("AttributeError", typeOrder[typeIdx], step, 0)
    /\ pc' = "aborted"
    /\ UNCHANGED <<typeIdx, step, samples_seen, process_response_queue, queueOrder,
                   batchLog>>
    /\ UNCHANGED <<taskIdx, task_docs, enumerated, docPos, docs, requests,
                   requests_origin, typeOrder, versions>>
    /\ UNCHANGED <<taskVars, paramVars, scoreVars>>

\* the backend invocation of a batch raises: the exception leaves evaluate()
BackendRaisesRetried ==
    /\ pc = "exec"
    /\ typeIdx <= Len(typeOrder)
    /\ raised = NoException
    /\ raised' = Exception("BackendError", typeOrder[typeIdx], step, 0)
    /\ UNCHANGED <<pc, typeIdx, step, samples_seen, process_response_queue, queueOrder,
                   batchLog>>
    /\ UNCHANGED <<taskIdx, task_docs, enumerated, docPos, docs, requests,
                   requests_origin, typeOrder, versions>>
    /\ UNCHANGED <<taskVars, paramVars, scoreVars>>
BackendRaises ==
    /\ pc = "exec"
    /\ typeIdx <= Len(typeOrder)
    /\ raised' = Exception("BackendError", typeOrder[typeIdx], step, 0)
    /\ pc' = "aborted"
    /\ UNCHANGED <<typeIdx, step, samples_seen, process_response_queue, queueOrder,
                   batchLog>>
    /\ UNCHANGED <<taskIdx, task_docs, enumerated, docPos, docs, requests,
                   requests_origin, typeOrder, versions>>
    /\ UNCHANGED <<taskVars, paramVars, scoreVars>>

\* the loop over requests_data_loaders is exhausted
FinishExec ==
    /\ pc = "exec"
    /\ typeIdx > Len(typeOrder)
    /\ pc' = "reconcile"
    /\ UNCHANGED <<taskIdx, task_docs, enumerated, docPos, docs, requests,
                   requests_origin, typeOrder, versions>>
    /\ UNCHANGED <<taskVars, paramVars, execVars, scoreVars>>

\* --------------------------------------------------- dedup, order, scoring
\* the first-seen filter over per_doc_requests, keyed by unique_request_id
DedupLastSeen(per_doc_requests, k, unique_request_ids, filtered) ==
    LET last == SelectSeq(
            [j \in DOMAIN per_doc_requests |-> [at |-> j, e |-> per_doc_requests[j]]],
            LAMBDA x : \A j \in (x.at + 1)..Len(per_doc_requests) :
                per_doc_requests[j].unique_request_id # x.e.unique_request_id)
    IN  [j \in DOMAIN last |-> last[j].e]
DedupNothing(per_doc_requests, k, unique_request_ids, filtered) == per_doc_requests
RECURSIVE Dedup(_, _, _, _)
Dedup(per_doc_requests, k, unique_request_ids, filtered) ==
    IF k > Len(per_doc_requests) THEN filtered
    ELSE LET per_doc_request == per_doc_requests[k]
         IN  IF per_doc_request.unique_request_id \notin unique_request_ids
             THEN Dedup(per_doc_requests, k + 1,
                        unique_request_ids \cup {per_doc_request.unique_request_id},
                        Append(filtered, per_doc_request))
             ELSE Dedup(per_doc_requests, k + 1, unique_request_ids, filtered)

\* insertion of e after the entries whose key is not greater (stable)
RECURSIVE InsertSorted(_, _)
InsertSorted(sorted, e) ==
    IF sorted = <<>> THEN <<e>>
    ELSE IF sorted[Len(sorted)].i <= e.i THEN Append(sorted, e)
    ELSE Append(InsertSorted(SubSeq(sorted, 1, Len(sorted) - 1), e), sorted[Len(sorted)])

\* per_doc_requests.sort(key=lambda x: x[0])
ArrivalOrder(entries, k, sorted) == entries
RECURSIVE SortBySubIndex(_, _, _)
SortBySubIndex(entries, k, sorted) ==
    IF k > Len(entries) THEN sorted
    ELSE SortBySubIndex(entries, k + 1, InsertSorted(sorted, entries[k]))

Reconciled(per_doc_requests) ==
    SortBySubIndex(Dedup(per_doc_requests, 1, {}, <<>>), 1, <<>>)

\* per_doc_results = [x[1] for x in per_doc_requests]
PerDocResults(entries) == [k \in DOMAIN entries |-> entries[k].response]

\* task.process_results(doc, per_doc_results): the metrics of one document
MetricOrder == <<"acc", "bleu">>
Metrics == Range(MetricOrder)
ProcessResults(doc, per_doc_results) ==
    [m \in Metrics |-> [metric |-> m, doc |-> doc, results |-> per_doc_results]]

\* task.aggregation()[metric](items)
Aggregation(metric, items) == [reduced |-> metric, items |-> items]

\* vals[(task_template_key, metric)].append(value)
ValsAssign(items, value) == <<value>>
ValsAppend(items, value) == Append(items, value)

\* for metric, value in metrics.items(): vals[(task_template_key, metric)].append(value)
RECURSIVE Accumulate(_, _, _, _)
Accumulate(acc, task_template_key, metrics, k) ==
    IF k > Len(MetricOrder) THEN acc
    ELSE LET vkey == <<task_template_key, MetricOrder[k]>>
             seen == vkey \in DOMAIN acc.vals
             items == IF seen THEN acc.vals[vkey] ELSE <<>>
         IN  Accumulate([vals |-> Put(acc.vals, vkey,
                                      ValsAppend(items, metrics[MetricOrder[k]])),
                         valsOrder |-> IF seen THEN acc.valsOrder
                                       ELSE Append(acc.valsOrder, vkey)],
                        task_template_key, metrics, k + 1)

\* task.save_examples of the task registered under a key
SaveExamples(task_template_key) == task_template_key = TaskKeys[1]

\* task.get_logging_info()
GetLoggingInfo(task_template_key) == [logging_info_of |-> task_template_key]

\* the logged example: with save_examples a new mapping, otherwise
\* `example = fewshot_logging_info; example.update(task.get_logging_info())`,
\* which updates the mapping that the origin records and the queue entries of
\* the document refer to
UpdatedInfo(info, task_template_key) ==
    IF SaveExamples(task_template_key) THEN info
    ELSE [info EXCEPT !.task_info = <<GetLoggingInfo(task_template_key)>>]
UpdateEntries(entries, task_template_key) ==
    [k \in DOMAIN entries |->
        [entries[k] EXCEPT !.info = UpdatedInfo(@, task_template_key)]]
UpdateOrigin(origin, bucket) ==
    [t \in DOMAIN origin |->
        [k \in DOMAIN origin[t] |->
            IF origin[t][k].task_template_key = bucket[1] /\ origin[t][k].doc_id = bucket[2]
            THEN [origin[t][k] EXCEPT !.info = UpdatedInfo(@, bucket[1])]
            ELSE origin[t][k]]]

\* one iteration of `for (task_template_key, doc_id), per_doc_requests in ...items()`
ProcessBucket ==
    /\ pc = "reconcile"
    /\ bucketIdx <= Len(queueOrder)
    /\ LET bucket == queueOrder[bucketIdx]
           task_template_key == bucket[1]
           per_doc_requests == Reconciled(process_response_queue[bucket])
           per_doc_results == PerDocResults(per_doc_requests)
           doc == docs[bucket]
           metrics == ProcessResults(doc, per_doc_results)
           acc == Accumulate([vals |-> vals, valsOrder |-> valsOrder],
                             task_template_key, metrics, 1)
       IN  /\ bundles' = Put(bundles, bucket,
                             [entries |-> UpdateEntries(per_doc_requests, task_template_key),
                              doc |-> doc,
                              results |-> per_doc_results,
                              info |-> UpdatedInfo(per_doc_requests[1].info,
                                                   task_template_key)])
           /\ process_response_queue' =
                  Put(process_response_queue, bucket,
                      UpdateEntries(process_response_queue[bucket], task_template_key))
           /\ requests_origin' = UpdateOrigin(requests_origin, bucket)
           /\ vals' = acc.vals
           /\ valsOrder' = acc.valsOrder
    /\ bucketIdx' = bucketIdx + 1
    /\ UNCHANGED <<pc, bootstrap_iters, results, metric_results>>
    /\ UNCHANGED <<taskIdx, task_docs, enumerated, docPos, docs, requests,
                   typeOrder, versions>>
    /\ UNCHANGED <<typeIdx, step, samples_seen, queueOrder, batchLog, raised>>
    /\ UNCHANGED <<taskVars, paramVars>>

\* lm_eval.tasks._split_task_template_key(task_template_key)
SplitTaskTemplateKey(task_template_key) ==
    [task_name |-> [task_name_of |-> task_template_key],
     prompt_name |-> [prompt_name_of |-> task_template_key]]

\* min(bootstrap_iters, 1000) if metric in ["bleu", "chrf", "ter"] else bootstrap_iters
ExpensiveMetrics == {"bleu", "chrf", "ter"}
BootstrapItersUncapped(metric, iters) == iters
BootstrapIters(metric, iters) ==
    IF metric \in ExpensiveMetrics THEN Min(iters, BootstrapCap)
    ELSE iters

\* the values of the argument bootstrap_iters: below BootstrapCap and the default
BootstrapItersValues == {BootstrapCap - 1, DefaultBootstrapIters}

\* lm_eval.api.metric.stderr_for_metric(metric=..., bootstrap_iters=...): the
\* standard-error estimator of a reduction, which is a function of the
\* collected values (is_none when the reduction has no estimator)
StderrForMetric(metric, iters) ==
    [is_none |-> FALSE, metric |-> metric, bootstrap_iters |-> iters]

\* stderr(items): the bootstrap standard error of the values, undefined for
\* fewer than 2 values
Stderr(stderr, items) ==
    [undefined |-> Len(items) < 2, stderr |-> stderr, items |-> items]

\* results[task_template_key][name] for the names the aggregation loop sets
StderrName(metric) == metric \o "_stderr"
TableResults(v, iters) ==
    LET keys == {vkey[1] : vkey \in DOMAIN v}
        estimated == {vkey \in DOMAIN v :
                        ~StderrForMetric(vkey[2], BootstrapIters(vkey[2], iters)).is_none}
        names == {<<key, "task_name">> : key \in keys}
                    \cup {<<key, "prompt_name">> : key \in keys}
                    \cup DOMAIN v
                    \cup {<<vkey[1], StderrName(vkey[2])>> : vkey \in estimated}
    IN  [x \in names |->
            IF x[2] = "task_name" THEN SplitTaskTemplateKey(x[1]).task_name
            ELSE IF x[2] = "prompt_name" THEN SplitTaskTemplateKey(x[1]).prompt_name
            ELSE IF x \in DOMAIN v THEN Aggregation(x[2], v[x])
            ELSE LET vkey == CHOOSE y \in estimated :
                                <<y[1], StderrName(y[2])>> = x
                 IN  Stderr(StderrForMetric(vkey[2], BootstrapIters(vkey[2], iters)),
                            v[vkey])]

\* _metric_results of one (task_template_key, metric): the names of the key,
\* the point estimate and, when there is an estimator, the standard error
MetricResult(v, vkey, iters) ==
    LET stderr == StderrForMetric(vkey[2], BootstrapIters(vkey[2], iters))
        names == {"task_name", "prompt_name", vkey[2]}
                    \cup (IF stderr.is_none THEN {} ELSE {StderrName(vkey[2])})
    IN  [x \in names |->
            IF x = "task_name" THEN SplitTaskTemplateKey(vkey[1]).task_name
            ELSE IF x = "prompt_name" THEN SplitTaskTemplateKey(vkey[1]).prompt_name
            ELSE IF x = vkey[2] THEN Aggregation(vkey[2], v[vkey])
            ELSE Stderr(stderr, v[vkey])]

\* metric_results.append(_metric_results) for each item of vals, in order
MetricResultsFirstOnly(v, order, iters) ==
    [k \in DOMAIN order |-> MetricResult(v, order[1], iters)]
MetricResults(v, order, iters) ==
    [k \in DOMAIN order |-> MetricResult(v, order[k], iters)]

\* the aggregation loop and the return of evaluate()
Aggregate ==
    /\ pc = "reconcile"
    /\ bucketIdx > Len(queueOrder)
    /\ \E iters \in BootstrapItersValues :
          /\ bootstrap_iters' = iters
          /\ results' = TableResults(vals, iters)
          /\ metric_results' = MetricResults(vals, valsOrder, iters)
    /\ pc' = "done"
    /\ UNCHANGED <<bucketIdx, bundles, vals, valsOrder>>
    /\ UNCHANGED <<taskIdx, task_docs, enumerated, docPos, docs, requests,
                   requests_origin, typeOrder, versions>>
    /\ UNCHANGED <<taskVars, paramVars, execVars>>

Next ==
    \/ KeepTask
    \/ SkipTask
    \/ EnumerateDocs
    \/ ConstructRequests
    \/ StoreVersion
    \/ PrepareDataLoaders
    \/ RunBatch
    \/ UnregisteredRequestType
    \/ BackendRaises
    \/ FinishExec
    \/ ProcessBucket
    \/ Aggregate

Spec == Init /\ [][Next]_vars

\* what the construction loop leaves for one task with n evaluated documents
\* of one loglikelihood request each
RECURSIVE Constructed(_, _)
Constructed(n, k) ==
    IF k = 0 THEN [requests |-> [t \in ReqTypes |-> <<>>],
                   origin |-> [t \in ReqTypes |-> <<>>], order |-> <<>>]
    ELSE AppendRequests(Constructed(n, k - 1), <<Req("loglikelihood", 0)>>, 0,
                        TaskKeys[1], MapDocIds(TaskKeys[1], n)[k], k - 1)

\* evaluate() after construction: the first task with up to MaxConstructed
\* documents of one request each, the second task ignored
InitConstructed ==
    /\ pc = "prepare"
    /\ batch_size \in 1..MaxBatch
    /\ num_processes = 0
    /\ taskPos = Len(TaskKeys) + 1
    /\ task_dict = <<TaskKeys[1]>>
    /\ ignored = <<TaskKeys[2]>>
    /\ taskIdx = 2
    /\ task_docs = <<>>
    /\ enumerated = FALSE
    /\ docPos = 0
    /\ \E n \in 1..MaxConstructed :
          /\ docs = [b \in {<<TaskKeys[1], d>> : d \in 0..(n - 1)} |->
                        MapDocIds(TaskKeys[1], n)[b[2] + 1]]
          /\ requests = Constructed(n, n).requests
          /\ requests_origin = Constructed(n, n).origin
          /\ typeOrder = Constructed(n, n).order
    /\ versions = Put(EmptyFn, TaskKeys[1], Version(TaskKeys[1]))
    /\ typeIdx = 1
    /\ step = 0
    /\ samples_seen = 0
    /\ process_response_queue = EmptyFn
    /\ queueOrder = <<>>
    /\ batchLog = <<>>
    /\ raised = NoException
    /\ bucketIdx = 1
    /\ bundles = EmptyFn
    /\ vals = EmptyFn
    /\ valsOrder = <<>>
    /\ bootstrap_iters = 0
    /\ results = EmptyFn
    /\ metric_results = <<>>

\* execution, scoring and aggregation of what construction has left
NextExecution ==
    \/ PrepareDataLoaders
    \/ RunBatch
    \/ UnregisteredRequestType
    \/ BackendRaises
    \/ FinishExec
    \/ ProcessBucket
    \/ Aggregate
SpecExecution == InitConstructed /\ [][NextExecution]_vars

\* the runs of Spec and those in which a batch delivers an absent dispatch id
NextAbsentId == Next \/ RunBatchAbsentId
SpecAbsentId == Init /\ [][NextAbsentId]_vars

\* a batch step whose backend invocation returns streams aligned with the
\* requests of the batch
RunBatchReturns == RunBatch /\ batchLog'[Len(batchLog')].fault = 0

\* the runs in which every backend invocation returns. evaluate() is one
\* sequential thread whose loops run over finite collections: as long as a
\* statement remains to be executed, one is executed (weak fairness of the
\* whole next-state relation)
NextBackendReturns ==
    \/ KeepTask
    \/ SkipTask
    \/ EnumerateDocs
    \/ ConstructRequests
    \/ StoreVersion
    \/ PrepareDataLoaders
    \/ RunBatchReturns
    \/ FinishExec
    \/ ProcessBucket
    \/ Aggregate
SpecBackendReturns ==
    Init /\ [][NextBackendReturns]_vars /\ WF_vars(NextBackendReturns)

\* ================================================================== claims
ConstructedRequests ==
    UNION {{<<t, k - 1>> : k \in DOMAIN requests[t]} : t \in ReqTypes}
OriginOf(r) == requests_origin[r[1]][r[2] + 1]
BuiltTriples ==
    {<<OriginOf(r).task_template_key, OriginOf(r).doc_id, OriginOf(r).i>> :
        r \in ConstructedRequests}
RecoveredTriples ==
    UNION {{<<b[1], b[2], bundles[b].entries[k].i>> : k \in DOMAIN bundles[b].entries} :
            b \in DOMAIN bundles}
NoDuplicateSubIndex ==
    \A b \in DOMAIN bundles :
        \A j, k \in DOMAIN bundles[b].entries :
            bundles[b].entries[j].i = bundles[b].entries[k].i => j = k

\* C1: when the run has returned, the (task_template_key, doc_id, sub_index)
\* triples of the constructed requests are exactly the triples found in the
\* reconciled buckets, and no bucket holds a sub_index twice.
C1_Bijection ==
    pc = "done" => (BuiltTriples = RecoveredTriples /\ NoDuplicateSubIndex)

\* C2: every triple handed to the routing loop carries the response tuple that
\* the backend computed for the request named by the triple's unique_request_id,
\* all of its components coming from one position of one rank, together with
\* that request's doc_id.
C2_IdentityTravelsWithData ==
    \A k \in {x \in DOMAIN batchLog : batchLog[x].fault = 0} :
        \A j \in DOMAIN batchLog[k].handed :
            LET tr == batchLog[k].handed[j]
                t == batchLog[k].request_type
            IN  /\ tr.response.kind = "tuple"
                /\ Len(tr.response.v) = NumStreams
                /\ \A c \in DOMAIN tr.response.v :
                      /\ tr.response.v[c].request_type = t
                      /\ tr.response.v[c].id = tr.unique_request_id
                      /\ tr.response.v[c].c = c - 1
                      /\ tr.response.v[c].rank = tr.response.v[1].rank
                      /\ tr.response.v[c].pos = tr.response.v[1].pos
                /\ tr.doc_id = requests[t][tr.unique_request_id + 1].doc_id

\* number of reconciled responses that the backend computed for type t
ReconciledCount(t) ==
    Cardinality(UNION {{<<b, k>> : k \in {x \in DOMAIN bundles[b].entries :
                            bundles[b].entries[x].response.v[1].request_type = t}} :
                        b \in DOMAIN bundles})

\* C3: after a distributed run has returned, the number of reconciled
\* responses of each request type equals the number of requests of that type.
C3_TruncationCorrectness ==
    (pc = "done" /\ num_processes > 1) =>
        \A t \in ReqTypes : ReconciledCount(t) = Len(requests[t])

\* results gathered by the batch steps of the same type before log entry k
RECURSIVE EmittedBefore(_, _)
EmittedBefore(k, j) ==
    IF j >= k THEN 0
    ELSE (IF batchLog[j].request_type = batchLog[k].request_type
          THEN Len(batchLog[j].produced) ELSE 0) + EmittedBefore(k, j + 1)

\* C4: on the last batch step of a type in distributed execution, the triples
\* handed to the routing loop are the first (total - already emitted) gathered
\* results, i.e. exactly the results of the real requests of that batch.
C4_LastBatchTruncation ==
    \A k \in DOMAIN batchLog :
        (batchLog[k].distributed /\ batchLog[k].last /\ batchLog[k].fault = 0) =>
            batchLog[k].handed =
                SubSeq(batchLog[k].produced, 1, batchLog[k].total - EmittedBefore(k, 1))

\* the triple tr of type t has its entry in the bucket of its origin record
Routed(t, tr) ==
    LET o == requests_origin[t][tr.unique_request_id + 1]
        bucket == <<o.task_template_key, tr.doc_id>>
    IN  /\ bucket \in DOMAIN process_response_queue
        /\ \E e \in Range(process_response_queue[bucket]) :
              /\ e.i = o.i
              /\ e.unique_request_id = tr.unique_request_id
              /\ e.response = Unwrap(tr.response, o.return_index)

\* C5: at every batch step that is not the last of its type, and at every
\* batch step of a non-distributed run, one result per element of the batch was
\* gathered and every gathered result was handed to the routing loop and routed.
C5_OnlyFinalBatchTruncated ==
    \A k \in DOMAIN batchLog :
        ((~batchLog[k].distributed \/ ~batchLog[k].last) /\ batchLog[k].fault = 0) =>
            /\ Len(batchLog[k].produced) = Len(batchLog[k].indices)
            /\ batchLog[k].handed = batchLog[k].produced
            /\ \A j \in DOMAIN batchLog[k].handed :
                  Routed(batchLog[k].request_type, batchLog[k].handed[j])

\* a distributed batch step that is not the last of its type has run
C5_Witness ==
    \E k \in DOMAIN batchLog :
        /\ batchLog[k].distributed
        /\ ~batchLog[k].last
        /\ Len(batchLog[k].handed) = batch_size * num_processes

\* C6: when the run has returned, every constructed request has one origin
\* record and exactly one surviving entry in the bucket of its document.
C6_ExactlyOneSurvivor ==
    pc = "done" =>
        /\ \A t \in ReqTypes : Len(requests_origin[t]) = Len(requests[t])
        /\ \A r \in ConstructedRequests :
              LET o == OriginOf(r)
                  bucket == <<o.task_template_key, o.doc_id>>
              IN  /\ bucket \in DOMAIN bundles
                  /\ Cardinality({k \in DOMAIN bundles[bucket].entries :
                                    bundles[bucket].entries[k].i = o.i}) = 1

\* C7: at all times the k-th request of every type has unique_request_id k
\* (zero-based), the k-th origin record of the type describes that request,
\* and the request and origin collections of a type have the same length.
C7_DispatchIdAssignment ==
    \A t \in ReqTypes :
        /\ Len(requests[t]) = Len(requests_origin[t])
        /\ \A k \in DOMAIN requests[t] :
              /\ requests[t][k].unique_request_id = k - 1
              /\ requests[t][k].request_type = t
              /\ requests_origin[t][k].doc_id = requests[t][k].doc_id
              /\ requests_origin[t][k].return_index = requests[t][k].index
              /\ \A j \in DOMAIN requests[t] :
                    requests[t][j].unique_request_id = requests[t][k].unique_request_id
                        => j = k

\* both request types have requests, one of them several
C7_Witness ==
    /\ Len(requests["loglikelihood"]) >= 2
    /\ Len(requests["greedy_until"]) >= 1

\* C8: the doc_id of every request, of its origin record and of its bucket is
\* the doc_id that the enumerator stored in the document (and that the
\* context metadata records).
C8_StableDocId ==
    /\ \A r \in ConstructedRequests :
          /\ requests[r[1]][r[2] + 1].doc_id = OriginOf(r).doc.doc_id
          /\ OriginOf(r).doc_id = OriginOf(r).doc.doc_id
          /\ OriginOf(r).doc_id = OriginOf(r).info.doc_id
    /\ \A b \in DOMAIN process_response_queue : b[2] = docs[b].doc_id

\* positions of a bucket that hold the first arrival of their unique_request_id
FirstSeen(q) ==
    {j \in DOMAIN q : \A j2 \in 1..(j - 1) : q[j2].unique_request_id # q[j].unique_request_id}

\* C9: the entries of a bucket that reach scoring are exactly the first
\* arrivals of each unique_request_id; a later arrival with the same id is
\* dropped whatever its response.
C9_FirstSeenDedup ==
    \A b \in DOMAIN bundles :
        LET q == process_response_queue[b]
            kept == bundles[b].entries
        IN  /\ Range(kept) = {q[j] : j \in FirstSeen(q)}
            /\ Len(kept) = Cardinality(FirstSeen(q))
            /\ \A k \in DOMAIN kept : bundles[b].results[k] = kept[k].response
            /\ \A j \in (DOMAIN q) \ FirstSeen(q) : q[j] \notin Range(kept)

\* a scored bucket received two replicas of one request with different
\* responses, and the first one reached scoring
C9_Witness ==
    \E b \in DOMAIN bundles :
        LET q == process_response_queue[b]
        IN  \E j1, j2 \in DOMAIN q :
                /\ j1 < j2
                /\ j1 \in FirstSeen(q)
                /\ q[j1].unique_request_id = q[j2].unique_request_id
                /\ q[j1].i = q[j2].i
                /\ q[j1].response # q[j2].response
                /\ q[j1].response \in Range(bundles[b].results)
                /\ q[j2].response \notin Range(bundles[b].results)

InsertAt(q, p, e) == SubSeq(q, 1, p - 1) \o <<e>> \o SubSeq(q, p, Len(q))

\* what scoring and aggregation make of a queue whose buckets are visited in order
BundleOf(q) == PerDocResults(Reconciled(q))
RECURSIVE ValsOf(_, _, _, _)
ValsOf(queue, order, k, acc) ==
    IF k > Len(order) THEN acc
    ELSE LET b == order[k]
             out == ProcessResults(docs[b], BundleOf(queue[b]))
         IN  ValsOf(queue, order, k + 1,
                    Accumulate([vals |-> acc, valsOrder |-> <<>>], b[1], out, 1).vals)
AggregatesOf(v) == TableResults(v, bootstrap_iters)

\* C10: for every bucket contents that execution produces, feeding once more
\* (at any later point) a triple that the bucket already received changes
\* neither the per-document bundle nor the metric values nor the aggregates;
\* and the bundles, values and aggregates the run ends with are those of its queue.
C10_DedupIdempotence ==
    /\ pc = "exec" =>
          LET once == ValsOf(process_response_queue, queueOrder, 1, EmptyFn)
          IN  \A b \in DOMAIN process_response_queue :
                LET q == process_response_queue[b]
                IN  \A j \in DOMAIN q : \A p \in (j + 1)..(Len(q) + 1) :
                      LET fed == InsertAt(q, p, q[j])
                          twice == ValsOf(Put(process_response_queue, b, fed),
                                          queueOrder, 1, EmptyFn)
                      IN  /\ BundleOf(fed) = BundleOf(q)
                          /\ twice = once
                          /\ AggregatesOf(twice) = AggregatesOf(once)
    /\ pc = "done" =>
          LET once == ValsOf(process_response_queue, queueOrder, 1, EmptyFn)
          IN  /\ \A b \in DOMAIN bundles :
                    bundles[b].results = BundleOf(process_response_queue[b])
              /\ DOMAIN bundles = DOMAIN process_response_queue
              /\ vals = once
              /\ results = AggregatesOf(once)

\* a run has returned results for a bucket that was fed one request twice
C10_Witness ==
    /\ pc = "done"
    /\ \E b \in DOMAIN process_response_queue :
          LET q == process_response_queue[b]
          IN  /\ \E j1, j2 \in DOMAIN q :
                    /\ j1 < j2
                    /\ q[j1].unique_request_id = q[j2].unique_request_id
                    /\ q[j1].i = q[j2].i
              /\ <<b[1], "acc">> \in DOMAIN results

\* the orders in which the entries of seq can arrive
Arrangements(seq) ==
    {[k \in DOMAIN seq |-> seq[p[k]]] :
        p \in {f \in [DOMAIN seq -> DOMAIN seq] : Injective(f)}}

\* C11: the entries of every bundle passed to scoring are the deduplicated
\* arrivals of the bucket in strictly ascending sub_index order, and every
\* arrival order of those entries sorts to that same bundle.
C11_Ordering ==
    \A b \in DOMAIN bundles :
        LET arrived == Dedup(process_response_queue[b], 1, {}, <<>>)
            kept == bundles[b].entries
        IN  /\ \A j, k \in DOMAIN kept : j < k => kept[j].i < kept[k].i
            /\ Range(kept) = Range(arrived)
            /\ Len(kept) = Len(arrived)
            /\ \A k \in DOMAIN kept : bundles[b].results[k] = kept[k].response
            /\ \A a \in Arrangements(arrived) : SortBySubIndex(a, 1, <<>>) = kept

\* a scored bucket whose entries arrived with the higher sub_index first
C11_Witness ==
    \E b \in DOMAIN bundles :
        LET arrived == Dedup(process_response_queue[b], 1, {}, <<>>)
        IN  /\ Len(arrived) = 2
            /\ arrived[1].i > arrived[2].i
            /\ bundles[b].entries = <<arrived[2], arrived[1]>>

\* the batch step being taken delivers a doc_id stream whose element at
\* position f differs from the doc_id of the origin record
MismatchAt(f) ==
    /\ pc = "exec"
    /\ Len(batchLog') = Len(batchLog) + 1
    /\ batchLog'[Len(batchLog')].fault = f

\* C12: a batch step whose triple at position f carries a doc_id different
\* from the doc_id of its origin record ends the run with an assertion error at
\* that triple: the buckets receive the triples before position f and nothing
\* else, nothing is scored, and no step follows, so no result is returned.
C12_DocIdMismatchFatal ==
    [][ /\ \A f \in 1..MaxFault :
              MismatchAt(f) =>
                  LET e == batchLog'[Len(batchLog')]
                      before == Route([queue |-> process_response_queue,
                                       order |-> queueOrder, ok |-> TRUE,
                                       error |-> "", at |-> 0],
                                      e.request_type, SubSeq(e.handed, 1, f - 1), 1)
                      tr == e.handed[f]
                  IN  /\ tr.doc_id #
                            requests_origin[e.request_type][tr.unique_request_id + 1].doc_id
                      /\ pc' = "aborted"
                      /\ raised' = Exception("AssertionError", e.request_type, e.step, f)
                      /\ before.ok
                      /\ process_response_queue' = before.queue
                      /\ queueOrder' = before.order
                      /\ bundles' = EmptyFn /\ vals' = EmptyFn /\ results' = EmptyFn
        /\ raised.kind # "AssertionError"
      ]_vars

\* a run stopped at the second triple of a batch of at least three: the first
\* triple is in its bucket, the others are not
C12_Witness ==
    /\ pc = "aborted"
    /\ raised.kind = "AssertionError"
    /\ raised.at = 2
    /\ LET e == batchLog[Len(batchLog)]
       IN  /\ Len(e.handed) >= 3
           /\ Routed(e.request_type, e.handed[1])
           /\ \A j \in 2..Len(e.handed) : ~Routed(e.request_type, e.handed[j])

\* C13: in every run the batch steps passed to the backend are pairwise
\* distinct, and once the backend invocation of a batch has raised the run is
\* over: neither that batch nor a later batch of its request type has been
\* answered by the backend, and nothing has been scored or returned.
C13_BackendFailureFatal ==
    /\ \A j, k \in DOMAIN batchLog :
          (/\ batchLog[j].request_type = batchLog[k].request_type
           /\ batchLog[j].step = batchLog[k].step) => j = k
    /\ raised.kind = "BackendError" =>
          /\ pc = "aborted"
          /\ \A k \in DOMAIN batchLog :
                batchLog[k].request_type = raised.request_type =>
                    batchLog[k].step < raised.step
          /\ bundles = EmptyFn /\ vals = EmptyFn /\ results = EmptyFn

\* the backend raised on the second batch of a type whose first batch had
\* been answered and routed
C13_Witness ==
    /\ raised.kind = "BackendError"
    /\ raised.step = 1
    /\ \E k \in DOMAIN batchLog :
          /\ batchLog[k].request_type = raised.request_type
          /\ batchLog[k].step = 0
          /\ batchLog[k].handed # <<>>
          /\ \A j \in DOMAIN batchLog[k].handed :
                Routed(raised.request_type, batchLog[k].handed[j])

\* C14: when a request type that the model cannot dispatch is rejected, no
\* batch of any request type has been passed to the backend, and nothing has
\* been scored or returned.
C14_UnregisteredRejectedAtGrouping ==
    raised.kind = "AttributeError" =>
        /\ batchLog = <<>>
        /\ process_response_queue = EmptyFn
        /\ bundles = EmptyFn /\ vals = EmptyFn /\ results = EmptyFn

\* the log entries of request type t, in the order they were written
BatchesOf(t) == SelectSeq(batchLog, LAMBDA e : e.request_type = t)
\* the (task_template_key, doc_id) of the documents with exactly c requests
DocsWithRequests(c) ==
    {b \in DOMAIN docs :
        Cardinality({r \in ConstructedRequests :
            <<OriginOf(r).task_template_key, OriginOf(r).doc_id>> = b}) = c}

\* C15: in a non-distributed run the k-th batch (from 0) of a type with N
\* requests is step k and holds the requests with unique_request_id k*B up to
\* min((k+1)*B, N) - 1 in that order, the batches are dispatched in ascending k
\* and are ceil(N/B) when the type is finished; when every document has one
\* request the run ends with one bucket per document and one response in each.
C15_StableFixedSizeBatching ==
    num_processes = 1 =>
        /\ \A t \in ReqTypes :
              LET log == BatchesOf(t)
                  N == Len(requests[t])
                  B == batch_size
              IN  /\ \A k \in DOMAIN log :
                        LET lo == (k - 1) * B
                            hi == Min(k * B, N)
                        IN  /\ log[k].step = k - 1
                            /\ log[k].total = N
                            /\ lo < hi
                            /\ log[k].indices = [j \in 1..(hi - lo) |-> lo + j - 1]
                            /\ Len(log[k].handed) = hi - lo
                            /\ \A j \in DOMAIN log[k].handed :
                                  log[k].handed[j].unique_request_id = lo + j - 1
                  /\ Len(log) <= CeilDiv(N, B)
                  /\ pc \in {"reconcile", "done"} => Len(log) = CeilDiv(N, B)
        /\ (pc = "done" /\ DocsWithRequests(1) = DOMAIN docs) =>
              /\ DOMAIN bundles = DOMAIN docs
              /\ \A b \in DOMAIN bundles : Len(bundles[b].results) = 1

\* a non-distributed run with batch_size 2 has returned after consuming a type
\* of 3 requests in batches of sizes 2 and 1
C15_Witness ==
    /\ pc = "done"
    /\ num_processes = 1
    /\ batch_size = 2
    /\ \E t \in ReqTypes :
          /\ Len(requests[t]) = 3
          /\ Len(BatchesOf(t)) = 2
          /\ Len(BatchesOf(t)[1].handed) = 2
          /\ Len(BatchesOf(t)[2].handed) = 1

\* C16: the logged batches follow the order of the request types, all batches
\* of a type being consecutive and in ascending step; a type's first batch is
\* dispatched only after the last batch of the type before it; and whenever a
\* batch is dispatched the triples of every earlier batch are in their buckets.
C16_TypesRunSequentially ==
    /\ \A k \in DOMAIN batchLog :
          /\ k = 1 => batchLog[k].step = 0 /\ batchLog[k].request_type = typeOrder[1]
          /\ k > 1 =>
                IF batchLog[k].request_type = batchLog[k - 1].request_type
                THEN /\ batchLog[k].step = batchLog[k - 1].step + 1
                     /\ ~batchLog[k - 1].last
                ELSE /\ batchLog[k].step = 0
                     /\ batchLog[k - 1].last
                     /\ Len(BatchesOf(batchLog[k - 1].request_type)) =
                            NumSteps(batch_size, num_processes, batchLog[k - 1].total)
          /\ \A j \in 1..(k - 1) : \A l \in j..k :
                batchLog[j].request_type = batchLog[k].request_type =>
                    batchLog[l].request_type = batchLog[k].request_type
          /\ \E x \in DOMAIN typeOrder :
                /\ typeOrder[x] = batchLog[k].request_type
                /\ \A j \in 1..(k - 1) : \E y \in 1..x :
                      typeOrder[y] = batchLog[j].request_type
    /\ \A k \in DOMAIN batchLog :
          batchLog[k].fault = 0 =>
              \A j \in DOMAIN batchLog[k].handed :
                  Routed(batchLog[k].request_type, batchLog[k].handed[j])
    /\ pc = "exec" /\ typeIdx <= Len(typeOrder) =>
          /\ \A k \in DOMAIN batchLog :
                \E x \in 1..typeIdx : typeOrder[x] = batchLog[k].request_type
          /\ Len(BatchesOf(typeOrder[typeIdx])) = step
          /\ \A x \in 1..(typeIdx - 1) :
                Len(BatchesOf(typeOrder[x])) = NumSteps(batch_size, num_processes,
                                                     Len(requests[typeOrder[x]]))

\* two request types have been executed, the first in several batches
C16_Witness ==
    /\ Len(typeOrder) = 2
    /\ Len(BatchesOf(typeOrder[1])) >= 2
    /\ Len(BatchesOf(typeOrder[2])) >= 1
    /\ batchLog[Len(batchLog)].request_type = typeOrder[2]

\* the entry e was appended for a triple of a logged batch whose origin record
\* belongs to the document (key, doc_id)
EntryBuiltFor(e, key, doc_id) ==
    \E k \in DOMAIN batchLog : \E j \in DOMAIN batchLog[k].handed :
        LET tr == batchLog[k].handed[j]
            o == requests_origin[batchLog[k].request_type][tr.unique_request_id + 1]
        IN  /\ tr.unique_request_id = e.unique_request_id
            /\ e.response = Unwrap(tr.response, o.return_index)
            /\ e.i = o.i
            /\ e.info = o.info
            /\ o.task_template_key = key
            /\ o.doc_id = doc_id
            /\ o.doc = docs[<<key, doc_id>>]

OwnResponse(val, t, id) ==
    /\ val.kind = "tuple"
    /\ Len(val.v) = NumStreams
    /\ \A c \in DOMAIN val.v :
          val.v[c] = Comp(t, id, c - 1, val.v[1].step, val.v[1].rank, val.v[1].pos)
\* val is element ix of the response tuple computed for request (t, id)
OwnElement(val, t, id, ix) ==
    /\ val.kind = "scalar"
    /\ val.v[1].request_type = t
    /\ val.v[1].id = id
    /\ val.v[1].c = ix

\* C18: for every triple that the routing loop has processed, the value
\* stored in the bucket is, when the origin record declares a return_index, the
\* element at that index of the response tuple computed for that request, and
\* otherwise that response tuple itself.
C18_ReturnIndexUnwrap ==
    \A k \in DOMAIN batchLog :
        LET e == batchLog[k]
            done == IF e.fault = 0 THEN Len(e.handed) ELSE e.fault - 1
        IN  \A j \in 1..done :
                LET tr == e.handed[j]
                    o == requests_origin[e.request_type][tr.unique_request_id + 1]
                    stored == Unwrap(tr.response, o.return_index)
                IN  /\ Routed(e.request_type, tr)
                    /\ IF o.return_index # None
                       THEN OwnElement(stored, e.request_type, tr.unique_request_id,
                                       o.return_index)
                       ELSE OwnResponse(stored, e.request_type, tr.unique_request_id)

\* the buckets of task/template key `key` that have been scored
ScoredBuckets(key) == {b \in DOMAIN bundles : b[1] = key}

\* C19: after n iterations of the scoring loop exactly the first n buckets
\* have been scored, n distinct ones, each with its document and its responses
\* in ascending sub_index order; the value each scoring returned for a metric
\* occurs exactly once in the values of (key, metric), which are as many as the
\* scored buckets of the key; a run that returns has scored every bucket.
C19_ScoringAndAccumulation ==
    /\ pc \notin {"reconcile", "done"} => (bundles = EmptyFn /\ vals = EmptyFn)
    /\ pc \in {"reconcile", "done"} =>
          /\ Injective(queueOrder)
          /\ Range(queueOrder) = DOMAIN process_response_queue
          /\ DOMAIN bundles = {queueOrder[k] : k \in 1..(bucketIdx - 1)}
          /\ Cardinality(DOMAIN bundles) = bucketIdx - 1
          /\ pc = "done" => DOMAIN bundles = DOMAIN process_response_queue
          /\ \A b \in DOMAIN bundles :
                LET kept == bundles[b].entries
                IN  /\ bundles[b].doc = docs[b]
                    /\ Range(kept) \subseteq Range(process_response_queue[b])
                    /\ \A j, k \in DOMAIN kept : j < k => kept[j].i < kept[k].i
                    /\ bundles[b].results = [k \in DOMAIN kept |-> kept[k].response]
                    /\ \A m \in Metrics :
                          /\ <<b[1], m>> \in DOMAIN vals
                          /\ Cardinality({k \in DOMAIN vals[<<b[1], m>>] :
                                vals[<<b[1], m>>][k] =
                                    ProcessResults(docs[b], bundles[b].results)[m]}) = 1
          /\ \A vkey \in DOMAIN vals :
                /\ vkey[2] \in Metrics
                /\ Len(vals[vkey]) = Cardinality(ScoredBuckets(vkey[1]))
          /\ Range(valsOrder) = DOMAIN vals

\* a run has returned after scoring two buckets of one key
C19_Witness ==
    /\ pc = "done"
    /\ \E key \in Range(TaskKeys) :
          /\ Cardinality(ScoredBuckets(key)) = 2
          /\ Len(vals[<<key, "acc">>]) = 2
          /\ vals[<<key, "acc">>][1] # vals[<<key, "acc">>][2]

\* C20: when a run has returned, every (task_template_key, metric) with fewer
\* than 2 collected values has its point estimate in the results and no
\* standard-error entry.
C20_DegenerateStandardError ==
    pc = "done" =>
        \A vkey \in DOMAIN vals :
            Len(vals[vkey]) < 2 =>
                /\ vkey \in DOMAIN results
                /\ results[vkey] = Aggregation(vkey[2], vals[vkey])
                /\ <<vkey[1], StderrName(vkey[2])>> \notin DOMAIN results

\* the iteration count the estimator of (task_template_key, metric) was built with
IterationsGiven(vkey) ==
    results[<<vkey[1], StderrName(vkey[2])>>].stderr.bootstrap_iters

\* C21: when a run has returned, the estimator of bleu, chrf and ter was given
\* an iteration count that exceeds neither 1000 nor bootstrap_iters and is one
\* of the two, and the estimator of every other metric was given bootstrap_iters.
C21_ReducedBootstrapIterations ==
    pc = "done" =>
        \A vkey \in DOMAIN vals :
            IF vkey[2] \in {"bleu", "chrf", "ter"}
            THEN /\ IterationsGiven(vkey) <= 1000
                 /\ IterationsGiven(vkey) <= bootstrap_iters
                 /\ IterationsGiven(vkey) \in {1000, bootstrap_iters}
            ELSE IterationsGiven(vkey) = bootstrap_iters

\* a run called with more than 1000 iterations has returned results for bleu
\* and for another metric
C21_Witness ==
    /\ pc = "done"
    /\ bootstrap_iters > 1000
    /\ \E key \in Range(TaskKeys) :
          /\ <<key, "bleu">> \in DOMAIN vals
          /\ IterationsGiven(<<key, "bleu">>) = 1000
          /\ <<key, "acc">> \in DOMAIN vals
          /\ IterationsGiven(<<key, "acc">>) = bootstrap_iters

\* the records of the returned list that belong to (task_template_key, metric)
RecordsOf(vkey) ==
    {k \in DOMAIN metric_results :
        /\ metric_results[k]["task_name"] = SplitTaskTemplateKey(vkey[1]).task_name
        /\ vkey[2] \in DOMAIN metric_results[k]}

\* the returned object: one record per pair with values, the per-key results
\* and the version tags
ResultObject ==
    /\ Len(metric_results) = Cardinality(DOMAIN vals)
    /\ \A vkey \in DOMAIN vals :
          /\ Cardinality(RecordsOf(vkey)) = 1
          /\ \A k \in RecordsOf(vkey) :
                /\ {"task_name", "prompt_name", vkey[2]} \subseteq DOMAIN metric_results[k]
                /\ DOMAIN metric_results[k] \subseteq
                      {"task_name", "prompt_name", vkey[2], StderrName(vkey[2])}
                /\ metric_results[k]["prompt_name"] =
                      SplitTaskTemplateKey(vkey[1]).prompt_name
                /\ metric_results[k][vkey[2]] = Aggregation(vkey[2], vals[vkey])
                /\ StderrName(vkey[2]) \in DOMAIN metric_results[k] =>
                      metric_results[k][StderrName(vkey[2])].items = vals[vkey]
          /\ results[vkey] = Aggregation(vkey[2], vals[vkey])
          /\ results[<<vkey[1], "task_name">>] = SplitTaskTemplateKey(vkey[1]).task_name
          /\ results[<<vkey[1], "prompt_name">>] = SplitTaskTemplateKey(vkey[1]).prompt_name
    /\ \A x \in DOMAIN results :
          /\ x[1] \in DOMAIN versions
          /\ versions[x[1]] = Version(x[1])
          /\ \E vkey \in DOMAIN vals : vkey[1] = x[1]

C23_TaskWithoutDocsSkipped ==
    [][/\ \A key \in Range(ignored') :
             /\ key \notin Range(task_dict')
             /\ \A b \in DOMAIN docs' : b[1] # key
             /\ \A t \in ReqTypes :
                   /\ Len(requests'[t]) = Len(requests_origin'[t])
                   /\ \A k \in DOMAIN requests_origin'[t] :
                         requests_origin'[t][k].task_template_key # key
             /\ key \notin DOMAIN versions'
             /\ \A b \in DOMAIN process_response_queue' : b[1] # key
             /\ \A b \in DOMAIN bundles' : b[1] # key
             /\ \A vkey \in DOMAIN vals' : vkey[1] # key
             /\ \A x \in DOMAIN results' : x[1] # key
       /\ ignored' # ignored =>
             /\ raised' = NoException
             /\ UNCHANGED <<task_dict, taskIdx, task_docs, enumerated, docPos, docs,
                            requests, requests_origin, typeOrder, versions>>
             /\ UNCHANGED <<paramVars, execVars, scoreVars>>
       /\ pc' # "tasks" =>
             /\ Len(task_dict') + Len(ignored') = Len(TaskKeys)
             /\ \A j, k \in DOMAIN task_dict' :
                   j < k => \E a, b \in DOMAIN TaskKeys :
                               a < b /\ TaskKeys[a] = task_dict'[j]
                                     /\ TaskKeys[b] = task_dict'[k]
       /\ pc' \notin {"tasks", "build"} => DOMAIN versions' = Range(task_dict')]_vars

\* a run has returned results for the second task after ignoring the first
C23_Witness ==
    /\ pc = "done"
    /\ ignored = <<TaskKeys[1]>>
    /\ task_dict = <<TaskKeys[2]>>
    /\ \E x \in DOMAIN results : x[1] = TaskKeys[2]

\* C25: once request construction has finished, no step of execution,
\* reconciliation, scoring or aggregation changes the per-type request
\* collections or the origin records.
C25_OriginRecordsWriteOnce ==
    [][pc \notin {"tasks", "build"} =>
          requests' = requests /\ requests_origin' = requests_origin]_vars

\* the document whose request the backend value x was computed for
DocOfValue(x) == requests_origin[x.request_type][x.id + 1].doc
\* every value held by the entries belongs to the document of bucket b
OneDocument(entries, b) ==
    \A k \in DOMAIN entries :
        \A x \in Range(entries[k].response.v) : DocOfValue(x) = docs[b]

\* C26: the document of every origin record is the one stored under the
\* record's (task_template_key, doc_id), so that two documents of a key never
\* share a doc_id; every response held in a bucket was computed for a request of
\* the document stored under the bucket's key, and scoring a bucket looks up
\* that document.
C26_DocIdUniqueness ==
    /\ \A t \in ReqTypes : \A k \in DOMAIN requests_origin[t] :
          LET o == requests_origin[t][k]
          IN  /\ <<o.task_template_key, o.doc_id>> \in DOMAIN docs
              /\ docs[<<o.task_template_key, o.doc_id>>] = o.doc
    /\ \A a, b \in DOMAIN docs : docs[a] = docs[b] => a = b
    /\ \A b \in DOMAIN process_response_queue :
          OneDocument(process_response_queue[b], b)
    /\ \A b \in DOMAIN bundles :
          /\ bundles[b].doc = docs[b]
          /\ OneDocument(bundles[b].entries, b)

\* the entries of the buckets whose dispatch id no request of the run has
AbsentEntries ==
    UNION {{<<b, k>> : k \in {x \in DOMAIN process_response_queue[b] :
                LET id == process_response_queue[b][x].unique_request_id
                IN  \A t \in ReqTypes : id \notin 0..(Len(requests[t]) - 1)}} :
            b \in DOMAIN process_response_queue}

\* C27: a batch whose triple at some position carries a dispatch id outside
\* 0..N-1 is the last batch of the run: the run has aborted at that triple,
\* and no bucket holds an entry with a dispatch id that no request has.
C27_AbsentDispatchIdFatal ==
    /\ \A k \in DOMAIN batchLog :
          batchLog[k].absent > 0 =>
              /\ k = Len(batchLog)
              /\ pc = "aborted"
              /\ raised.at = batchLog[k].absent
              /\ raised.step = batchLog[k].step
    /\ AbsentEntries = {}

\* a response as a value of the backend alone: which component of the response
\* to which request, whatever batch, rank and position computed it
Canon(response) ==
    [kind |-> response.kind,
     v |-> [k \in DOMAIN response.v |->
                [request_type |-> response.v[k].request_type,
                 id |-> response.v[k].id, c |-> response.v[k].c]]]
CanonResults(per_doc_results) ==
    [k \in DOMAIN per_doc_results |-> Canon(per_doc_results[k])]

\* the queue after the batch steps s, s + 1, ... of type t, executed with batch
\* size B on W processes from the queue st
RECURSIVE ExecuteType(_, _, _, _, _, _)
ExecuteType(B, W, t, s, seen, st) ==
    LET n == Len(requests[t])
        last == s = NumSteps(B, W, n) - 1
        shards == [p \in 1..W |-> ShardIndices(B, W, s, p - 1, n)]
        perRank == [p \in 1..W |-> BackendCall(t, shards[p], s, p - 1)]
        gathered == [c \in 1..NumStreams |-> Gather([p \in 1..W |-> perRank[p][c]], 1)]
        triples == Triples(Gather([p \in 1..W |-> UniqueRequestIds(t, shards[p])], 1),
                           Gather([p \in 1..W |-> DocIds(t, shards[p])], 1),
                           ResponseList(Truncate(gathered, W > 1, last, n, seen)))
    IN  IF s >= NumSteps(B, W, n) \/ ~st.ok THEN st
        ELSE ExecuteType(B, W, t, s + 1, SamplesSeenAfter(gathered, W > 1, last, seen),
                         Route(st, t, triples, 1))
RECURSIVE ExecuteTypes(_, _, _, _)
ExecuteTypes(B, W, ti, st) ==
    IF ti > Len(typeOrder) \/ ~st.ok THEN st
    ELSE ExecuteTypes(B, W, ti + 1, ExecuteType(B, W, typeOrder[ti], 0, 0, st))

\* what a run of the constructed requests with batch size B on W processes
\* ends with: whether it returns, the buckets in scoring order and the response
\* list of each bucket (the metric values and the aggregated results are
\* functions of these and of the documents)
OutcomeWith(B, W) ==
    LET st == ExecuteTypes(B, W, 1, [queue |-> EmptyFn, order |-> <<>>, ok |-> TRUE,
                                     error |-> "", at |-> 0])
    IN  IF st.ok
        THEN [returns |-> TRUE, order |-> st.order,
              bundles |-> [b \in DOMAIN st.queue |->
                              CanonResults(PerDocResults(Reconciled(st.queue[b])))]]
        ELSE [returns |-> FALSE, order |-> <<>>, bundles |-> EmptyFn]
\* the same of the run that has returned
Outcome ==
    [returns |-> TRUE, order |-> queueOrder,
     bundles |-> [b \in DOMAIN bundles |-> CanonResults(bundles[b].results)]]

\* C28: when a run has returned, the run of the same requests with any other
\* batch size, on the same number of processes, returns the same buckets in
\* the same order with the same response lists.
C28_BatchSizeIndependence ==
    pc = "done" => \A B \in 1..MaxBatch : OutcomeWith(B, num_processes) = Outcome

\* C29: when a distributed run has returned, the non-distributed run of the
\* same requests with the same batch size returns the same buckets in the same
\* order with the same response lists.
C29_DistributedRefinesNonDistributed ==
    (pc = "done" /\ num_processes >= 2) => OutcomeWith(batch_size, 1) = Outcome

\* the dataset indices that the batch steps of the same type before log entry
\* k have served
ServedBefore(k) ==
    UNION {Range(batchLog[j].indices) :
            j \in {x \in 1..(k - 1) : batchLog[x].request_type = batchLog[k].request_type}}

\* C30: at every batch step of a distributed run samples_seen is the number of
\* results gathered by the earlier steps of the same type (0 at the first),
\* and at the last step of the type (dataset length - samples_seen) is the
\* number of requests whose result no earlier step has gathered.
C30_EmittedCountBookkeeping ==
    \A k \in DOMAIN batchLog :
        batchLog[k].distributed =>
            /\ batchLog[k].step = 0 => batchLog[k].seen_before = 0
            /\ batchLog[k].seen_before = EmittedBefore(k, 1)
            /\ batchLog[k].last =>
                  batchLog[k].total - batchLog[k].seen_before =
                      batchLog[k].total - Cardinality(ServedBefore(k))

\* the origin record that the routing loop reads for a handed triple
OriginOfTriple(t, tr) == requests_origin[t][ListIndex(tr.unique_request_id,
                                                      Len(requests_origin[t]))]

\* C31: in every batch step whose id streams are the ones of its requests
\* (no fault), each handed triple, padding replicas included, names an origin
\* record of its type whose doc_id is the triple's doc_id; a run is stopped by
\* the doc_id assertion only at a batch step that delivered a faulty stream.
C31_AssertionValidity ==
    /\ \A j \in DOMAIN batchLog :
          batchLog[j].fault = 0 =>
              \A k \in DOMAIN batchLog[j].handed :
                  LET t == batchLog[j].request_type
                      tr == batchLog[j].handed[k]
                  IN  /\ tr.unique_request_id \in 0..(Len(requests_origin[t]) - 1)
                      /\ DocIdMatches(tr.doc_id, OriginOfTriple(t, tr).doc_id)
    /\ raised.kind = "AssertionError" =>
          /\ batchLog # <<>>
          /\ batchLog[Len(batchLog)].fault > 0
          /\ batchLog[Len(batchLog)].fault = raised.at

\* a fault-free distributed batch step that handed a padding replica (the same
\* dataset index twice) next to a request of another document to the routing
\* loop, which routed all of its triples
C31_Witness ==
    /\ raised = NoException
    /\ \E j \in DOMAIN batchLog :
          LET e == batchLog[j]
          IN  /\ e.fault = 0
              /\ e.distributed
              /\ \E a, b \in DOMAIN e.handed :
                    a < b /\ e.indices[a] = e.indices[b]
              /\ \E a, b \in DOMAIN e.handed : e.handed[a].doc_id # e.handed[b].doc_id
              /\ \A k \in DOMAIN e.handed : Routed(e.request_type, e.handed[k])

\* the evaluated documents of a task/template key, and those of them for
\* which no request was constructed
DocsOf(key) == {b \in DOMAIN docs : b[1] = key}
ZeroRequestDocsOf(key) == DocsOf(key) \cap DocsWithRequests(0)

\* C32: an iteration of the construction loop whose request list is empty
\* stores the document and leaves the requests, the origin records and the
\* type order as they were; at every point of a run a document without
\* requests has no bucket, has not been scored and is the document of no
\* collected value, and when the run has returned the values of each (key,
\* metric) are at most as many as the documents of the key that have requests.
C32_ZeroRequestDocuments ==
    [][ /\ (pc = "build" /\ docPos' = docPos + 1 /\ requests' = requests) =>
              /\ DOMAIN docs' = DOMAIN docs \cup {<<task_dict[taskIdx], docPos>>}
              /\ <<task_dict[taskIdx], docPos>> \in DocsWithRequests(0)'
              /\ requests_origin' = requests_origin
              /\ typeOrder' = typeOrder
              /\ process_response_queue' = process_response_queue
        /\ \A b \in DocsWithRequests(0)' :
              /\ b \notin DOMAIN process_response_queue'
              /\ b \notin Range(queueOrder')
              /\ b \notin DOMAIN bundles'
              /\ \A vkey \in DOMAIN vals' : \A k \in DOMAIN vals'[vkey] :
                    vals'[vkey][k].doc # docs'[b]
        /\ pc' = "done" =>
              \A vkey \in DOMAIN vals' :
                  Len(vals'[vkey]) <= Cardinality(DocsOf(vkey[1])')
                                        - Cardinality(ZeroRequestDocsOf(vkey[1])')
      ]_vars

\* a run has returned fewer values for a key than the key has evaluated
\* documents, one of which has no request
C32_Witness ==
    /\ pc = "done"
    /\ \E key \in Range(TaskKeys) :
          /\ ZeroRequestDocsOf(key) # {}
          /\ <<key, "acc">> \in DOMAIN vals
          /\ Len(vals[<<key, "acc">>]) >= 1
          /\ Len(vals[<<key, "acc">>]) < Cardinality(DocsOf(key))
          /\ Len(results[<<key, "acc">>].items) < Cardinality(DocsOf(key))

\* every constructed request is in a batch passed to the backend, in exactly
\* one batch when the run is not distributed
EveryRequestDispatched ==
    \A r \in ConstructedRequests :
        LET served == {k \in DOMAIN batchLog :
                          /\ batchLog[k].request_type = r[1]
                          /\ r[2] \in Range(batchLog[k].indices)}
        IN  /\ served # {}
            /\ num_processes = 1 =>
                  /\ Cardinality(served) = 1
                  /\ \A k \in served :
                        Cardinality({j \in DOMAIN batchLog[k].indices :
                                        batchLog[k].indices[j] = r[2]}) = 1

\* the bucket of the document of request r holds the response that the
\* backend computed for r (its element at return_index when one is declared)
ResponseInBucket(r) ==
    LET o == OriginOf(r)
        bucket == <<o.task_template_key, o.doc_id>>
    IN  /\ bucket \in DOMAIN process_response_queue
        /\ \E e \in Range(process_response_queue[bucket]) :
              /\ e.i = o.i
              /\ e.unique_request_id = r[2]
              /\ IF o.return_index # None
                 THEN OwnElement(e.response, r[1], r[2], o.return_index)
                 ELSE OwnResponse(e.response, r[1], r[2])

\* every bucket has been scored and the aggregated results have been returned
ScoredAndReturned ==
    /\ pc = "done"
    /\ raised = NoException
    /\ DOMAIN bundles = DOMAIN process_response_queue
    /\ \A b \in DOMAIN bundles :
          \A m \in Metrics :
              \E k \in DOMAIN vals[<<b[1], m>>] :
                  vals[<<b[1], m>>][k] = ProcessResults(docs[b], bundles[b].results)[m]
    /\ results = TableResults(vals, bootstrap_iters)

\* C33: in every run in which every backend invocation returns, eventually
\* every constructed request has been in a batch passed to the backend (in
\* exactly one batch when the run is not distributed), the response computed
\* for it is in the bucket of its document, every bucket has been scored and
\* the run has returned the aggregated results.
C33_EveryRequestServed ==
    <>(/\ ScoredAndReturned
       /\ EveryRequestDispatched
       /\ \A r \in ConstructedRequests : ResponseInBucket(r))
====
